---- MODULE Spec2Model ----
(***************************************************************************)
(* Verification model of the call-value resolver (CallValueWrapper and the *)
(* CallValueApiImpl loader), the MOAX-or-DCT token identifier, the denali  *)
(* transaction interpreter and log checker, and the mock execution         *)
(* engine's frame rollback.                                                *)
(***************************************************************************)
EXTENDS Integers, Sequences, FiniteSets, TLC

(***************************************************************************)
(* Bounds of the model.                                                    *)
(***************************************************************************)
MaxTransfers == 2      \* longest dct_values list of a call
MaxCalls == 3          \* contract-side operations per call
MaxExpected == 3       \* largest N of multi_dct::<N>
MaxBuffers == 1        \* managed buffers the contract allocates itself
MaxTokenOps == 2       \* operations on one token identifier input
MaxMarkerLen == 4      \* longest byte string over the marker's letters
MaxLogBytes == 1       \* longest data payload of a log
MaxRawDct == 2         \* longest dct_value list of a fixture record
MaxDepth == 1          \* nested frames above the top-level frame
MaxLogs == 1           \* pending logs of a transaction, over all frames

(***************************************************************************)
(* State.                                                                  *)
(***************************************************************************)
VARIABLES
    tx_input,                     \* TxInput: moax_value, dct_values
    call_value_moax_handle,       \* static var: cached MOAX handle
    call_value_multi_dct_handle,  \* static var: cached multi-DCT handle
    big_int_map,                  \* host big integers, by handle
    managed_buffer_map,           \* host managed buffers, by handle
    moax_loads,                   \* number of load_moax_value host calls
    dct_loads,                    \* number of load_all_dct_transfers host calls
    direct_loads,                 \* of these, the ones the contract made itself
    calls,                        \* operations performed in this call
    result,                       \* outcome of the last operation
    tx_log,                       \* TxLog: address, endpoint, topics, data
    check_log,                    \* denali CheckLog: one pattern per field
    tx_call_raw,                  \* TxCallRaw: the fixture record
    tx_call,                      \* TxCall interpreted from it
    world,                        \* World State: balances and storage
    frames,                       \* call stack of the engine, top last
    tx_result,                    \* Transaction Result: status and logs
    last_event                    \* what the last frame transition was

cv_vars == <<tx_input, call_value_moax_handle, call_value_multi_dct_handle,
             big_int_map, managed_buffer_map, moax_loads, dct_loads,
             direct_loads, calls, result>>
log_vars == <<tx_log, check_log>>
txc_vars == <<tx_call_raw, tx_call>>
eng_vars == <<world, frames, tx_result, last_event>>

(***************************************************************************)
(* Handles and byte encodings.                                             *)
(***************************************************************************)
\* reserved handles of const_handles; only their being distinct from each
\* other and from allocated handles (0, 1, 2, ...) matters here
UNINITIALIZED_HANDLE == 2147483647
CALL_VALUE_MOAX == -35
CALL_VALUE_MULTI_DCT == -37

\* the w low-order bytes of n, most significant first
RECURSIVE NatToBeBytes(_, _)
NatToBeBytes(n, w) ==
    IF w = 0 THEN <<>> ELSE Append(NatToBeBytes(n \div 256, w - 1), n % 256)

RECURSIVE BeBytesToNat(_)
BeBytesToNat(bs) ==
    IF bs = <<>> THEN 0
    ELSE 256 * BeBytesToNat(SubSeq(bs, 1, Len(bs) - 1)) + bs[Len(bs)]

Complement(bs) == [i \in 1..Len(bs) |-> 255 - bs[i]]

\* u64::to_be_bytes
U64ToBeBytes(n) == NatToBeBytes(n, 8)

\* i32::to_be_bytes (two's complement)
I32ToBeBytes(h) ==
    IF h < 0 THEN Complement(NatToBeBytes(-h - 1, 4)) ELSE NatToBeBytes(h, 4)

\* i32::from_be_bytes
I32FromBeBytes(bs) ==
    IF bs[1] >= 128 THEN -BeBytesToNat(Complement(bs)) - 1 ELSE BeBytesToNat(bs)

Put(m, h, v) == [x \in (DOMAIN m) \cup {h} |-> IF x = h THEN v ELSE m[x]]

\* the host's handle allocator: handles are handed out 0, 1, 2, ...
NewHandle(m) == Cardinality({h \in DOMAIN m : h >= 0})

(***************************************************************************)
(* Host state threaded through the wrappers.                               *)
(***************************************************************************)
HostState ==
    [moaxH |-> call_value_moax_handle,
     dctH  |-> call_value_multi_dct_handle,
     bi    |-> big_int_map,
     mb    |-> managed_buffer_map,
     moax_loads |-> moax_loads,
     dct_loads  |-> dct_loads]

\* CallValueApiImpl::load_moax_value
load_moax_value(st, dest) ==
    [st EXCEPT !.bi = Put(st.bi, dest, tx_input.moax_value),
               !.moax_loads = @ + 1]

dct_num_transfers == Len(tx_input.dct_values)

\* ManagedBufferApi::mb_overwrite
mb_overwrite(st, dest, bytes) == [st EXCEPT !.mb = Put(st.mb, dest, bytes)]

\* ManagedBufferApi::mb_append_bytes
mb_append_bytes(st, dest, bytes) ==
    [st EXCEPT !.mb = Put(st.mb, dest, st.mb[dest] \o bytes)]

\* token_by_index: a new managed buffer holding the identifier of transfer i
token_by_index(st, i) ==
    LET h == NewHandle(st.mb)
    IN  [st |-> [st EXCEPT !.mb = Put(st.mb, h, tx_input.dct_values[i + 1].token_identifier)],
         handle |-> h]

dct_token_nonce_by_index(i) == tx_input.dct_values[i + 1].nonce

\* dct_value_by_index: a new big integer holding the amount of transfer i
dct_value_by_index(st, i) ==
    LET h == NewHandle(st.bi)
    IN  [st |-> [st EXCEPT !.bi = Put(st.bi, h, tx_input.dct_values[i + 1].value)],
         handle |-> h]

(***************************************************************************)
(* load_all_dct_transfers_from_unmanaged                                   *)
(***************************************************************************)
LoadOneTransfer(st, dest_handle, i) ==
    LET t  == token_by_index(st, i)
        token_nonce == dct_token_nonce_by_index(i)
        a  == dct_value_by_index(t.st, i)
        s1 == mb_append_bytes(a.st, dest_handle, I32ToBeBytes(t.handle))
        s2 == mb_append_bytes(s1, dest_handle, U64ToBeBytes(token_nonce))
    IN  mb_append_bytes(s2, dest_handle, I32ToBeBytes(a.handle))

RECURSIVE LoadTransfersLoop(_, _, _, _)
LoadTransfersLoop(st, dest_handle, i, num_transfers) ==
    IF i >= num_transfers THEN st
    ELSE LoadTransfersLoop(LoadOneTransfer(st, dest_handle, i),
                           dest_handle, i + 1, num_transfers)

load_all_dct_transfers_no_overwrite(st, dest_handle) ==
    LET num_transfers == dct_num_transfers
        s0 == IF dest_handle \in DOMAIN st.mb THEN st
              ELSE mb_overwrite(st, dest_handle, <<>>)
    IN  LoadTransfersLoop(s0, dest_handle, 0, num_transfers)

load_all_dct_transfers_from_unmanaged(st, dest_handle) ==
    LET num_transfers == dct_num_transfers
        s0 == mb_overwrite(st, dest_handle, <<>>)
    IN  LoadTransfersLoop(s0, dest_handle, 0, num_transfers)

\* CallValueApiImpl::load_all_dct_transfers (default method)
load_all_dct_transfers(st, dest_handle) ==
    LET s == load_all_dct_transfers_from_unmanaged(st, dest_handle)
    IN  [s EXCEPT !.dct_loads = @ + 1]

(***************************************************************************)
(* ManagedVec<DctTokenPayment> over a managed buffer: 16-byte items, each  *)
(* the identifier handle, the nonce and the amount handle.                 *)
(***************************************************************************)
PAYLOAD_SIZE == 16

ManagedVecLen(st, h) == Len(st.mb[h]) \div PAYLOAD_SIZE

ManagedVecGet(st, h, i) ==
    LET item == SubSeq(st.mb[h], PAYLOAD_SIZE * i + 1, PAYLOAD_SIZE * (i + 1))
    IN  [token_identifier |-> I32FromBeBytes(SubSeq(item, 1, 4)),
         token_nonce      |-> BeBytesToNat(SubSeq(item, 5, 12)),
         amount           |-> I32FromBeBytes(SubSeq(item, 13, 16))]

\* ManagedVec::to_array_of_refs::<N>: None unless the length is N
to_array_of_refs(st, h, N) ==
    IF ManagedVecLen(st, h) # N
    THEN [is_some |-> FALSE, items |-> <<>>]
    ELSE [is_some |-> TRUE, items |-> [k \in 1..N |-> ManagedVecGet(st, h, k - 1)]]

INCORRECT_NUM_DCT_TRANSFERS == "incorrect number of DCT transfers"
FUNGIBLE_TOKEN_EXPECTED_ERR_MSG == "fungible DCT token expected"

\* ManagedOption::none() is a reserved handle
MANAGED_OPTION_NONE == 2147483646

Ok(st, v) == [st |-> st, ok |-> TRUE, err |-> "", val |-> v]
\* ErrorApiImpl::signal_error: the call stops here
SignalError(st, msg) == [st |-> st, ok |-> FALSE, err |-> msg, val |-> <<>>]

(***************************************************************************)
(* CallValueWrapper                                                        *)
(***************************************************************************)
moax_value_always_load(st) ==
    LET s1 == [st EXCEPT !.moaxH = CALL_VALUE_MOAX]
    IN  Ok(load_moax_value(s1, CALL_VALUE_MOAX), CALL_VALUE_MOAX)

moax_value(st) ==
    IF st.moaxH = UNINITIALIZED_HANDLE
    THEN LET s1 == [st EXCEPT !.moaxH = CALL_VALUE_MOAX]
         IN  Ok(load_moax_value(s1, CALL_VALUE_MOAX), CALL_VALUE_MOAX)
    ELSE Ok(st, st.moaxH)

all_dct_transfers(st) ==
    IF st.dctH = UNINITIALIZED_HANDLE
    THEN LET s1 == [st EXCEPT !.dctH = CALL_VALUE_MULTI_DCT]
         IN  Ok(load_all_dct_transfers(s1, CALL_VALUE_MULTI_DCT), CALL_VALUE_MULTI_DCT)
    ELSE Ok(st, st.dctH)

multi_dct_at_least(st, N) ==
    LET v   == all_dct_transfers(st)
        len == ManagedVecLen(v.st, v.val)
    IN  IF len >= N
        THEN Ok(v.st, [k \in 1..N |-> ManagedVecGet(v.st, v.val, k - 1)])
        ELSE SignalError(v.st, INCORRECT_NUM_DCT_TRANSFERS)

multi_dct(st, N) ==
    LET v   == all_dct_transfers(st)
        arr == to_array_of_refs(v.st, v.val, N)
    IN  IF arr.is_some
        THEN Ok(v.st, arr.items)
        ELSE SignalError(v.st, INCORRECT_NUM_DCT_TRANSFERS)

single_dct(st) ==
    LET r == multi_dct(st, 1)
    IN  IF r.ok THEN Ok(r.st, r.val[1]) ELSE r

single_fungible_dct_no_nonce_check(st) ==
    LET r == single_dct(st)
    IN  IF ~r.ok THEN r
        ELSE Ok(r.st, <<r.val.token_identifier, r.val.amount>>)

single_fungible_dct(st) ==
    LET r == single_dct(st)
    IN  IF ~r.ok THEN r
        ELSE IF r.val.token_nonce # 0
             THEN SignalError(r.st, FUNGIBLE_TOKEN_EXPECTED_ERR_MSG)
             ELSE Ok(r.st, <<r.val.token_identifier, r.val.amount>>)

\* MoaxOrDctTokenIdentifier::moax() / ::dct(): a ManagedOption over the handle
moax == MANAGED_OPTION_NONE
dct(token_identifier) == token_identifier

moax_or_single_dct_first_of_many(st) ==
    LET v   == all_dct_transfers(st)
        len == ManagedVecLen(v.st, v.val)
    IN  IF len = 0
        THEN LET m == moax_value(v.st)
             IN  Ok(m.st, [token_identifier |-> moax, token_nonce |-> 0, amount |-> m.val])
        ELSE LET p == ManagedVecGet(v.st, v.val, 0)
             IN  Ok(v.st, [token_identifier |-> dct(p.token_identifier),
                           token_nonce |-> p.token_nonce, amount |-> p.amount])

moax_or_single_dct(st) ==
    LET v   == all_dct_transfers(st)
        len == ManagedVecLen(v.st, v.val)
    IN  CASE len = 0 ->
               LET m == moax_value(v.st)
               IN  Ok(m.st, [token_identifier |-> moax, token_nonce |-> 0, amount |-> m.val])
          [] len = 1 ->
               LET p == ManagedVecGet(v.st, v.val, 0)
               IN  Ok(v.st, [token_identifier |-> dct(p.token_identifier),
                             token_nonce |-> p.token_nonce, amount |-> p.amount])
          [] OTHER -> SignalError(v.st, INCORRECT_NUM_DCT_TRANSFERS)

moax_or_single_fungible_dct_no_nonce_check(st) ==
    LET r == moax_or_single_dct(st)
    IN  IF ~r.ok THEN r
        ELSE Ok(r.st, <<r.val.token_identifier, r.val.amount>>)

moax_or_single_fungible_dct(st) ==
    LET r == moax_or_single_dct(st)
    IN  IF ~r.ok THEN r
        ELSE IF r.val.token_nonce # 0
             THEN SignalError(r.st, FUNGIBLE_TOKEN_EXPECTED_ERR_MSG)
             ELSE Ok(r.st, <<r.val.token_identifier, r.val.amount>>)

(***************************************************************************)
(* The call: a TxInput, then any sequence of contract-side operations.     *)
(* An operation that signals an error ends the call.                       *)
(***************************************************************************)
TokenIds == {<<"T", "1">>, <<"T", "2">>}
Nonces == {0, 300}
Amounts == {0, 5}
MoaxAmounts == {0, 100}

TxInputDCT == [token_identifier : TokenIds, nonce : Nonces, value : Amounts]

RECURSIVE SeqsUpTo(_, _)
SeqsUpTo(S, n) ==
    IF n = 0 THEN {<<>>}
    ELSE LET shorter == SeqsUpTo(S, n - 1)
         IN  shorter \cup {Append(q, x) : q \in {r \in shorter : Len(r) = n - 1}, x \in S}

TxInput == [moax_value : MoaxAmounts, dct_values : SeqsUpTo(TxInputDCT, MaxTransfers)]

NoResult == [op |-> "none", n |-> 0, ok |-> TRUE, err |-> "", val |-> <<>>]

\* the parts of the state a specification does not use
NoLog == [address |-> <<>>, endpoint |-> <<>>, topics |-> <<>>, data |-> <<>>]
NoCheckLog == [address |-> [kind |-> "star", value |-> <<>>],
               endpoint |-> [kind |-> "star", value |-> <<>>],
               topics |-> [kind |-> "star", value |-> <<>>],
               data |-> [kind |-> "star", value |-> <<>>]]
NoOption == [is_some |-> FALSE, v |-> <<>>]
NoTxCallRaw == [value |-> NoOption, moax_value |-> NoOption, dct_value |-> <<>>]
NoTxCall == [interpreted |-> FALSE, moax_value |-> 0, dct_value |-> <<>>]
NoWorld == [balance |-> <<>>, storage |-> <<>>]
NoEvent == [ev |-> "none", kind |-> "none", from |-> "", to |-> "", amount |-> 0,
            issued |-> NoWorld, failed_world |-> NoWorld, parent_logs |-> <<>>]
EngineIdle ==
    /\ world = NoWorld
    /\ frames = <<>>
    /\ tx_result = [status |-> "none", logs |-> <<>>]
    /\ last_event = NoEvent
\* TxInput::dummy
TxInputDummy == [moax_value |-> 0, dct_values |-> <<>>]
NoHostCalls ==
    /\ call_value_moax_handle = UNINITIALIZED_HANDLE
    /\ call_value_multi_dct_handle = UNINITIALIZED_HANDLE
    /\ big_int_map = <<>>
    /\ moax_loads = 0
    /\ dct_loads = 0
    /\ direct_loads = 0
    /\ calls = 0
    /\ result = NoResult
CallValueIdle ==
    /\ tx_input = TxInputDummy
    /\ NoHostCalls
    /\ managed_buffer_map = <<>>
LogIdle == tx_log = NoLog /\ check_log = NoCheckLog
TxCallIdle == tx_call_raw = NoTxCallRaw /\ tx_call = NoTxCall

InitCallValue ==
    /\ LogIdle /\ TxCallIdle /\ EngineIdle
    /\ tx_input \in TxInput
    /\ NoHostCalls
    /\ managed_buffer_map = <<>>

Running == calls < MaxCalls /\ result.ok

\* the state after an operation returned r
Returns(op, n, r) ==
    /\ call_value_moax_handle' = r.st.moaxH
    /\ call_value_multi_dct_handle' = r.st.dctH
    /\ big_int_map' = r.st.bi
    /\ managed_buffer_map' = r.st.mb
    /\ moax_loads' = r.st.moax_loads
    /\ dct_loads' = r.st.dct_loads
    /\ calls' = calls + 1
    /\ result' = [op |-> op, n |-> n, ok |-> r.ok, err |-> r.err, val |-> r.val]
    /\ UNCHANGED <<tx_input, log_vars, txc_vars, eng_vars>>

CallMoaxValue ==
    /\ Running
    /\ Returns("moax_value", 0, moax_value(HostState))
    /\ UNCHANGED direct_loads

CallAllDctTransfers ==
    /\ Running
    /\ Returns("all_dct_transfers", 0, all_dct_transfers(HostState))
    /\ UNCHANGED direct_loads

CallMultiDct ==
    /\ Running
    /\ \E N \in 0..MaxExpected : Returns("multi_dct", N, multi_dct(HostState, N))
    /\ UNCHANGED direct_loads

CallSingleDct ==
    /\ Running
    /\ Returns("single_dct", 1, single_dct(HostState))
    /\ UNCHANGED direct_loads

CallSingleFungibleDct ==
    /\ Running
    /\ Returns("single_fungible_dct", 1, single_fungible_dct(HostState))
    /\ UNCHANGED direct_loads

CallMoaxOrSingleDct ==
    /\ Running
    /\ Returns("moax_or_single_dct", 0, moax_or_single_dct(HostState))
    /\ UNCHANGED direct_loads

CallMoaxOrSingleFungibleDct ==
    /\ Running
    /\ Returns("moax_or_single_fungible_dct", 0, moax_or_single_fungible_dct(HostState))
    /\ UNCHANGED direct_loads

\* the contract allocates a managed buffer of its own (ManagedBuffer::from)
JunkBytes == <<222, 173, 190, 239>>

CallNewManagedBuffer ==
    /\ Running
    /\ Cardinality({h \in DOMAIN managed_buffer_map :
                      managed_buffer_map[h] = JunkBytes}) < MaxBuffers
    /\ LET h == NewHandle(managed_buffer_map)
       IN  Returns("new_buffer", h,
                   Ok(mb_overwrite(HostState, h, JunkBytes), h))
    /\ UNCHANGED direct_loads

\* the contract calls the API's load_all_dct_transfers on a buffer of its own
CallLoadAllDctTransfers ==
    /\ Running
    /\ \E h \in {x \in DOMAIN managed_buffer_map : managed_buffer_map[x] = JunkBytes} :
          Returns("load_all_dct_transfers", h,
                  Ok(load_all_dct_transfers(HostState, h), h))
    /\ direct_loads' = direct_loads + 1

NextCallValue ==
    \/ CallMoaxValue
    \/ CallAllDctTransfers
    \/ CallMultiDct
    \/ CallSingleDct
    \/ CallSingleFungibleDct
    \/ CallMoaxOrSingleDct
    \/ CallMoaxOrSingleFungibleDct
    \/ CallNewManagedBuffer
    \/ CallLoadAllDctTransfers

vars == <<cv_vars, log_vars, txc_vars, eng_vars>>

Spec == InitCallValue /\ [][NextCallValue]_vars

(***************************************************************************)
(* Properties of the call-value resolver.                                  *)
(***************************************************************************)
NumTransfers == Len(tx_input.dct_values)

\* a payment (identifier handle, nonce, amount handle) is transfer k of the call
IsTransfer(p, k) ==
    /\ p.token_identifier \in DOMAIN managed_buffer_map
    /\ managed_buffer_map[p.token_identifier] = tx_input.dct_values[k].token_identifier
    /\ p.token_nonce = tx_input.dct_values[k].nonce
    /\ p.amount \in DOMAIN big_int_map
    /\ big_int_map[p.amount] = tx_input.dct_values[k].value

HostView == [mb |-> managed_buffer_map]

\* C1: moax_or_single_dct returns (MOAX, nonce 0, the call's MOAX value) when
\* the call has no DCT transfer, returns the sole transfer when it has
\* exactly one, and signals the incorrect-number-of-transfers error, with no
\* payment, when it has more than one.
C1_MoaxOrSingleDct ==
    result.op = "moax_or_single_dct" =>
        /\ NumTransfers = 0 =>
              /\ result.ok
              /\ result.val.token_identifier = MANAGED_OPTION_NONE
              /\ result.val.token_nonce = 0
              /\ big_int_map[result.val.amount] = tx_input.moax_value
        /\ NumTransfers = 1 =>
              /\ result.ok
              /\ result.val.token_identifier # MANAGED_OPTION_NONE
              /\ IsTransfer(result.val, 1)
        /\ NumTransfers > 1 =>
              /\ ~result.ok
              /\ result.err = INCORRECT_NUM_DCT_TRANSFERS
              /\ result.val = <<>>

C1_Witness ==
    /\ result.op = "moax_or_single_dct"
    /\ NumTransfers = 2
    /\ tx_input.moax_value = 0
    /\ tx_input.dct_values[1].token_identifier = <<"T", "1">>
    /\ tx_input.dct_values[2].token_identifier = <<"T", "2">>
    /\ ~result.ok

\* the buffer at handle h holds exactly the call's transfers, in call order
HoldsAllTransfers(h) ==
    /\ h \in DOMAIN managed_buffer_map
    /\ Len(managed_buffer_map[h]) = PAYLOAD_SIZE * NumTransfers
    /\ ManagedVecLen(HostView, h) = NumTransfers
    /\ \A i \in 0..(NumTransfers - 1) : IsTransfer(ManagedVecGet(HostView, h, i), i + 1)

\* C4: after load_all_dct_transfers the destination holds exactly N entries,
\* entry i being transfer i of the call, whatever the destination held before.
C4_LoadAllDctTransfers ==
    /\ call_value_multi_dct_handle # UNINITIALIZED_HANDLE =>
          HoldsAllTransfers(call_value_multi_dct_handle)
    /\ result.op = "load_all_dct_transfers" => HoldsAllTransfers(result.n)

C4_Witness ==
    /\ result.op = "load_all_dct_transfers"
    /\ NumTransfers = 2
    /\ tx_input.dct_values[1] # tx_input.dct_values[2]
    /\ HoldsAllTransfers(result.n)

\* loads of the transfer list the wrapper asked the host for
WrapperDctLoads == dct_loads - direct_loads

C8_Cached ==
    /\ moax_loads <= 1
    /\ WrapperDctLoads <= 1
    /\ (call_value_moax_handle = UNINITIALIZED_HANDLE) <=> (moax_loads = 0)
    /\ (call_value_multi_dct_handle = UNINITIALIZED_HANDLE) <=> (WrapperDctLoads = 0)

C8_Step ==
    /\ call_value_moax_handle # UNINITIALIZED_HANDLE =>
          /\ call_value_moax_handle' = call_value_moax_handle
          /\ big_int_map'[call_value_moax_handle] = big_int_map[call_value_moax_handle]
          /\ moax_loads' = moax_loads
    /\ call_value_multi_dct_handle # UNINITIALIZED_HANDLE =>
          /\ call_value_multi_dct_handle' = call_value_multi_dct_handle
          /\ managed_buffer_map'[call_value_multi_dct_handle]
                = managed_buffer_map[call_value_multi_dct_handle]
          /\ WrapperDctLoads' = WrapperDctLoads
    /\ result'.op = "moax_value" =>
          /\ result'.val = call_value_moax_handle'
          /\ big_int_map'[result'.val] = tx_input.moax_value
          /\ call_value_multi_dct_handle' = call_value_multi_dct_handle
          /\ dct_loads' = dct_loads
          /\ managed_buffer_map' = managed_buffer_map
    /\ result'.op = "all_dct_transfers" =>
          /\ result'.val = call_value_multi_dct_handle'
          /\ call_value_moax_handle' = call_value_moax_handle
          /\ moax_loads' = moax_loads

\* C8: within one call the host loads the MOAX value at most once and the
\* transfer list at most once, on the first invocation; later invocations
\* return the same handle and value, and neither load disturbs the other.
C8_FetchOnce == [](C8_Cached) /\ [][C8_Step]_cv_vars

C8_Witness ==
    /\ calls >= 2
    /\ result.op = "moax_value"
    /\ moax_loads = 1
    /\ dct_loads = 0
    /\ managed_buffer_map = <<>>
    /\ tx_input.moax_value = 100
    /\ big_int_map[result.val] = 100

\* C9: multi_dct::<K> returns the K transfers in call order when the call has
\* exactly K transfers and signals the incorrect-number-of-transfers error
\* otherwise; single_dct is the case K = 1.
C9_MultiDct ==
    /\ result.op = "multi_dct" =>
          IF NumTransfers = result.n
          THEN /\ result.ok
               /\ Len(result.val) = result.n
               /\ \A k \in 1..result.n : IsTransfer(result.val[k], k)
          ELSE /\ ~result.ok
               /\ result.err = INCORRECT_NUM_DCT_TRANSFERS
               /\ result.val = <<>>
    /\ result.op = "single_dct" =>
          IF NumTransfers = 1
          THEN result.ok /\ IsTransfer(result.val, 1)
          ELSE /\ ~result.ok
               /\ result.err = INCORRECT_NUM_DCT_TRANSFERS
               /\ result.val = <<>>

C9_Witness ==
    /\ result.op = "multi_dct"
    /\ result.n = 1
    /\ NumTransfers = 2
    /\ ~result.ok

\* C10: single_fungible_dct returns (identifier, amount) of the sole transfer
\* exactly when the call has one transfer with nonce 0; a transfer count
\* other than 1 gives the cardinality error whatever the nonces, one
\* transfer with a non-zero nonce gives the fungible-token-expected error,
\* and a failing call returns nothing.
C10_SingleFungibleDct ==
    result.op = "single_fungible_dct" =>
        /\ result.ok <=> (NumTransfers = 1 /\ tx_input.dct_values[1].nonce = 0)
        /\ result.ok =>
              /\ managed_buffer_map[result.val[1]] = tx_input.dct_values[1].token_identifier
              /\ big_int_map[result.val[2]] = tx_input.dct_values[1].value
        /\ NumTransfers # 1 => result.err = INCORRECT_NUM_DCT_TRANSFERS
        /\ (NumTransfers = 1 /\ tx_input.dct_values[1].nonce # 0) =>
              result.err = FUNGIBLE_TOKEN_EXPECTED_ERR_MSG
        /\ ~result.ok => result.val = <<>>

C10_Witness ==
    /\ result.op = "single_fungible_dct"
    /\ NumTransfers = 1
    /\ tx_input.dct_values[1].nonce = 300
    /\ result.err = FUNGIBLE_TOKEN_EXPECTED_ERR_MSG

\* C11: moax_or_single_fungible_dct is moax_or_single_dct plus a nonce check:
\* with no transfer it always succeeds with (MOAX, the call's MOAX value);
\* with one transfer it returns (identifier, amount) when the nonce is 0 and
\* signals the fungible-token-expected error otherwise; with more than one
\* transfer it signals the incorrect-number-of-transfers error.
C11_MoaxOrSingleFungibleDct ==
    result.op = "moax_or_single_fungible_dct" =>
        /\ NumTransfers = 0 =>
              /\ result.ok
              /\ result.val[1] = MANAGED_OPTION_NONE
              /\ big_int_map[result.val[2]] = tx_input.moax_value
        /\ (NumTransfers = 1 /\ tx_input.dct_values[1].nonce = 0) =>
              /\ result.ok
              /\ result.val[1] # MANAGED_OPTION_NONE
              /\ managed_buffer_map[result.val[1]] = tx_input.dct_values[1].token_identifier
              /\ big_int_map[result.val[2]] = tx_input.dct_values[1].value
        /\ (NumTransfers = 1 /\ tx_input.dct_values[1].nonce # 0) =>
              /\ ~result.ok
              /\ result.err = FUNGIBLE_TOKEN_EXPECTED_ERR_MSG
              /\ result.val = <<>>
        /\ NumTransfers > 1 =>
              /\ ~result.ok
              /\ result.err = INCORRECT_NUM_DCT_TRANSFERS
              /\ result.val = <<>>

C11_Witness ==
    /\ result.op = "moax_or_single_fungible_dct"
    /\ NumTransfers = 1
    /\ tx_input.moax_value = 0
    /\ tx_input.dct_values[1].nonce = 300
    /\ tx_input.dct_values[1].value = 5
    /\ result.err = FUNGIBLE_TOKEN_EXPECTED_ERR_MSG

\* the amount of entry i of the transfer list held at handle h
AmountAt(h, i) == big_int_map[ManagedVecGet(HostView, h, i).amount]

\* C12: every entry of a call's transfer list has an amount greater than 0:
\* the payment returned by single_dct and by single_fungible_dct, and every
\* entry of all_dct_transfers, never has amount 0.
C12_PositiveAmounts ==
    /\ (result.op = "single_dct" /\ result.ok) =>
          big_int_map[result.val.amount] > 0
    /\ (result.op = "single_fungible_dct" /\ result.ok) =>
          big_int_map[result.val[2]] > 0
    /\ result.op = "all_dct_transfers" =>
          \A i \in 0..(ManagedVecLen(HostView, result.val) - 1) :
              AmountAt(result.val, i) > 0

MOAX_REPRESENTATION == <<"M", "O", "A", "X">>

parse_never_moax(st, data) == dct(data)

\* MoaxOrDctTokenIdentifier::parse
parse(st, data) ==
    IF st.mb[data] = MOAX_REPRESENTATION THEN moax ELSE dct(data)

is_moax(v) == v = MANAGED_OPTION_NONE
is_dct(v) == v # MANAGED_OPTION_NONE

\* ManagedBuffer::from(&[u8]): a new managed buffer
ManagedBufferFrom(st, bytes) ==
    LET h == NewHandle(st.mb)
    IN  [st |-> mb_overwrite(st, h, bytes), handle |-> h]

\* MoaxOrDctTokenIdentifier::into_name
into_name(st, v) ==
    IF is_moax(v)
    THEN LET b == ManagedBufferFrom(st, MOAX_REPRESENTATION) IN Ok(b.st, b.handle)
    ELSE Ok(st, v)

\* the codec of a byte string: the bytes handed to it are the bytes written
SliceTopEncode(bytes) == bytes
SliceDepEncode(bytes) == bytes

\* TopEncode / NestedEncode for MoaxOrDctTokenIdentifier
top_encode(st, v) ==
    IF is_dct(v) THEN SliceTopEncode(st.mb[v]) ELSE SliceTopEncode(MOAX_REPRESENTATION)

dep_encode(st, v) ==
    IF is_dct(v) THEN SliceDepEncode(st.mb[v]) ELSE SliceDepEncode(MOAX_REPRESENTATION)

\* TopDecode / NestedDecode for MoaxOrDctTokenIdentifier
top_decode(st, input) ==
    LET b == ManagedBufferFrom(st, input) IN Ok(b.st, parse(b.st, b.handle))

dep_decode(st, input) ==
    LET b == ManagedBufferFrom(st, input) IN Ok(b.st, parse(b.st, b.handle))

(***************************************************************************)
(* TokenIdentifier::is_valid_dct_identifier                                *)
(***************************************************************************)
TICKER_MIN_LENGTH == 3
TICKER_MAX_LENGTH == 10
ADDITIONAL_RANDOM_CHARS_LENGTH == 6
IDENTIFIER_MIN_LENGTH == TICKER_MIN_LENGTH + ADDITIONAL_RANDOM_CHARS_LENGTH + 1
IDENTIFIER_MAX_LENGTH == TICKER_MAX_LENGTH + ADDITIONAL_RANDOM_CHARS_LENGTH + 1
DASH_CHARACTER == "-"

Digits == {"0", "1", "2", "3", "4", "5", "6", "7", "8", "9"}
UppercaseLetters ==
    {"A", "B", "C", "D", "E", "F", "G", "H", "I", "J", "K", "L", "M",
     "N", "O", "P", "Q", "R", "S", "T", "U", "V", "W", "X", "Y", "Z"}
LowercaseHexLetters == {"a", "b", "c", "d", "e", "f"}

validate_token_identifier(token_id_slice) ==
    LET length == Len(token_id_slice)
        ticker_len == length - ADDITIONAL_RANDOM_CHARS_LENGTH - 1
    IN  IF length < IDENTIFIER_MIN_LENGTH \/ length > IDENTIFIER_MAX_LENGTH THEN FALSE
        ELSE IF \E i \in 1..ticker_len :
                   token_id_slice[i] \notin UppercaseLetters \cup Digits THEN FALSE
        ELSE IF token_id_slice[ticker_len + 1] # DASH_CHARACTER THEN FALSE
        ELSE IF \E i \in (ticker_len + 2)..length :
                   token_id_slice[i] \notin LowercaseHexLetters \cup Digits THEN FALSE
        ELSE TRUE

is_valid_dct_identifier(st, token_identifier) ==
    validate_token_identifier(st.mb[token_identifier])

is_valid_checks_moax(st, v) ==
    IF is_moax(v) THEN validate_token_identifier(MOAX_REPRESENTATION)
    ELSE is_valid_dct_identifier(st, v)

\* MoaxOrDctTokenIdentifier::is_valid
is_valid(st, v) ==
    IF is_moax(v) THEN TRUE ELSE is_valid_dct_identifier(st, v)

(***************************************************************************)
(* Token identifier inputs: byte strings around the marker, and identifier *)
(* candidates around the validity limits.                                  *)
(***************************************************************************)
Rep(c, k) == [i \in 1..k |-> c]

MarkerStrings == SeqsUpTo({"M", "O", "A", "X"}, MaxMarkerLen)

IdCandidates ==
    { Rep(c1, k) \o <<sep>> \o Rep(c2, m) :
        k \in (TICKER_MIN_LENGTH - 1)..(TICKER_MAX_LENGTH + 1),
        c1 \in {"A", "7", "a"},
        sep \in {"-", "A"},
        m \in (ADDITIONAL_RANDOM_CHARS_LENGTH - 1)..(ADDITIONAL_RANDOM_CHARS_LENGTH + 1),
        c2 \in {"f", "5", "g"} }

ValidBase == <<"A", "B", "C", "-", "1", "2", "a", "b", "3", "f">>

OneDefect ==
    { [ValidBase EXCEPT ![i] = c] : i \in 1..Len(ValidBase),
                                    c \in {"a", "-", "G", "g", "0", "F"} }

\* the identifiers of test_token_identifier_is_valid
TestIds ==
    { <<"A", "L", "C", "-", "6", "2", "5", "8", "d", "2">>,
      <<"A", "L", "-", "C", "6", "2", "5", "8", "d", "2">>,
      <<"1", "2", "3", "4", "5", "-", "6", "2", "5", "8", "d", "2">>,
      <<"A", "L", "C", "C", "C", "C", "C", "C", "C", "C", "C", "-",
        "6", "2", "5", "8", "d", "2">> }

TokenInputs == MarkerStrings \cup IdCandidates \cup OneDefect \cup TestIds

InitTokenId ==
    /\ LogIdle /\ TxCallIdle /\ EngineIdle
    /\ tx_input = TxInputDummy
    /\ NoHostCalls
    /\ \E b \in TokenInputs : managed_buffer_map = Put(<<>>, 0, b)

\* PartialEq of TokenIdentifier: two managed buffers are equal when they hold
\* the same bytes
TokenIdentifierEq(st, a, b) == st.mb[a] = st.mb[b]

\* PartialEq of ManagedOption<TokenIdentifier>: None equals None only, and two
\* Some are compared by content
ManagedOptionEq(st, a, b) ==
    CASE a = MANAGED_OPTION_NONE /\ b = MANAGED_OPTION_NONE -> TRUE
      [] a # MANAGED_OPTION_NONE /\ b # MANAGED_OPTION_NONE -> TokenIdentifierEq(st, a, b)
      [] OTHER -> FALSE

eq_by_name(st, self, other) ==
    (IF is_moax(self) THEN MOAX_REPRESENTATION ELSE st.mb[self])
        = (IF is_moax(other) THEN MOAX_REPRESENTATION ELSE st.mb[other])

\* PartialEq for MoaxOrDctTokenIdentifier: self.data == other.data
eq(st, self, other) == ManagedOptionEq(st, self, other)

\* PartialEq<TokenIdentifier> for MoaxOrDctTokenIdentifier
eq_token_identifier(st, self, other) ==
    IF is_moax(self) THEN FALSE ELSE TokenIdentifierEq(st, self, other)

\* the values at hand: MOAX, and a DCT identifier over each live buffer
TokenValues == {moax} \cup {dct(h) : h \in DOMAIN managed_buffer_map}

TokenOp(op, v, r) ==
    /\ calls < MaxTokenOps
    /\ Returns(op, v, r)
    /\ UNCHANGED direct_loads

TokParse ==
    \E data \in DOMAIN managed_buffer_map :
        TokenOp("parse", data, Ok(HostState, parse(HostState, data)))

TokIntoName ==
    \E v \in TokenValues : TokenOp("into_name", v, into_name(HostState, v))

TokTopEncode ==
    \E v \in TokenValues : TokenOp("top_encode", v, Ok(HostState, top_encode(HostState, v)))

TokDepEncode ==
    \E v \in TokenValues : TokenOp("dep_encode", v, Ok(HostState, dep_encode(HostState, v)))

\* a value is encoded and the bytes written are decoded again
TokTopRoundTrip ==
    \E v \in TokenValues :
        TokenOp("top_round_trip", v, top_decode(HostState, top_encode(HostState, v)))

TokDepRoundTrip ==
    \E v \in TokenValues :
        TokenOp("dep_round_trip", v, dep_decode(HostState, dep_encode(HostState, v)))

TokIsValid ==
    \E v \in TokenValues : TokenOp("is_valid", v, Ok(HostState, is_valid(HostState, v)))

TokEq ==
    \E self \in TokenValues, other \in TokenValues :
        TokenOp("eq", self,
                Ok(HostState, [other |-> other, equal |-> eq(HostState, self, other)]))

TokEqTokenIdentifier ==
    \E self \in TokenValues, other \in DOMAIN managed_buffer_map :
        TokenOp("eq_token_identifier", self,
                Ok(HostState, [other |-> other,
                               equal |-> eq_token_identifier(HostState, self, other)]))

NextTokenId ==
    \/ TokParse
    \/ TokIntoName
    \/ TokTopEncode
    \/ TokDepEncode
    \/ TokTopRoundTrip
    \/ TokDepRoundTrip
    \/ TokIsValid
    \/ TokEq
    \/ TokEqTokenIdentifier

SpecTokenId == InitTokenId /\ [][NextTokenId]_vars

\* the bytes a value stands for
NameOf(v) ==
    IF v = MANAGED_OPTION_NONE THEN <<"M", "O", "A", "X">> ELSE managed_buffer_map[v]

\* C2: parse gives MOAX for the 4-byte marker and otherwise a DCT identifier
\* with the parsed bytes; MOAX encodes (top, nested, into_name) to the
\* marker, a DCT identifier to its bytes; encoding MOAX and parsing the
\* result gives MOAX.
C2_ParseEncode ==
    /\ result.op = "parse" =>
          IF managed_buffer_map[result.n] = <<"M", "O", "A", "X">>
          THEN result.val = MANAGED_OPTION_NONE
          ELSE /\ result.val # MANAGED_OPTION_NONE
               /\ managed_buffer_map[result.val] = managed_buffer_map[result.n]
    /\ result.op \in {"top_encode", "dep_encode"} => result.val = NameOf(result.n)
    /\ result.op = "into_name" =>
          /\ result.val # MANAGED_OPTION_NONE
          /\ managed_buffer_map[result.val] = NameOf(result.n)
    /\ (result.op \in {"top_round_trip", "dep_round_trip"}
          /\ result.n = MANAGED_OPTION_NONE) => result.val = MANAGED_OPTION_NONE

C2_Witness ==
    /\ result.op = "top_round_trip"
    /\ result.n = MANAGED_OPTION_NONE
    /\ result.val = MANAGED_OPTION_NONE
    /\ managed_buffer_map[0] # <<"M", "O", "A", "X">>
    /\ \E h \in DOMAIN managed_buffer_map : managed_buffer_map[h] = <<"M", "O", "A", "X">>

\* ticker of 3..10 uppercase-alphanumeric characters, '-', 6 lowercase-hex characters
MatchesIdentifierFormat(b) ==
    \E k \in 3..10 :
        /\ Len(b) = k + 7
        /\ \A i \in 1..k : b[i] \in UppercaseLetters \cup Digits
        /\ b[k + 1] = "-"
        /\ \A i \in (k + 2)..(k + 7) : b[i] \in {"a", "b", "c", "d", "e", "f"} \cup Digits

\* C3: is_valid is true for MOAX, and for a DCT identifier exactly when its
\* bytes are a 3..10 character uppercase-alphanumeric ticker, '-', and 6
\* lowercase-hex characters.
C3_IsValid ==
    result.op = "is_valid" =>
        /\ result.n = MANAGED_OPTION_NONE => result.val = TRUE
        /\ result.n # MANAGED_OPTION_NONE =>
              /\ result.val <=> MatchesIdentifierFormat(managed_buffer_map[result.n])
              /\ managed_buffer_map[result.n]
                    \in { <<"A", "L", "C", "-", "6", "2", "5", "8", "d", "2">>,
                          <<"1", "2", "3", "4", "5", "-", "6", "2", "5", "8", "d", "2">> }
                    => result.val = TRUE
              /\ managed_buffer_map[result.n]
                    \in { <<"A", "L", "-", "C", "6", "2", "5", "8", "d", "2">>,
                          <<"A", "L", "C", "C", "C", "C", "C", "C", "C", "C", "C", "-",
                            "6", "2", "5", "8", "d", "2">> }
                    => result.val = FALSE

C3_Witness ==
    /\ result.op = "is_valid"
    /\ result.n # MANAGED_OPTION_NONE
    /\ managed_buffer_map[result.n]
          = <<"1", "2", "3", "4", "5", "-", "6", "2", "5", "8", "d", "2">>
    /\ result.val = TRUE

\* the value is a DCT identifier whose bytes are the MOAX marker
IsMarkerDct(v) ==
    v # MANAGED_OPTION_NONE /\ managed_buffer_map[v] = MOAX_REPRESENTATION

RoundTrips == {"top_round_trip", "dep_round_trip"}

\* C14, as stated: two MOAX-or-DCT identifiers are equal exactly when the
\* bytes of their names are equal, MOAX and a DCT identifier holding the
\* marker included; a value encoded and parsed again equals the original.
C14_EqOnName ==
    /\ result.op = "eq" =>
          (result.val.equal <=> NameOf(result.n) = NameOf(result.val.other))
    /\ result.op \in RoundTrips => eq(HostState, result.n, result.val)

\* C14, amended: two MOAX-or-DCT identifiers are equal exactly when both are
\* MOAX or both are DCT identifiers with the same bytes, so MOAX never equals
\* a DCT identifier, not even one whose bytes are the marker (nor a plain
\* TokenIdentifier); a value encoded and parsed again equals the original
\* except a DCT identifier whose bytes are the marker, which comes back MOAX.
C14_EqOnOption ==
    /\ result.op = "eq" =>
          (result.val.equal <=>
              \/ result.n = MANAGED_OPTION_NONE /\ result.val.other = MANAGED_OPTION_NONE
              \/ /\ result.n # MANAGED_OPTION_NONE
                 /\ result.val.other # MANAGED_OPTION_NONE
                 /\ managed_buffer_map[result.n] = managed_buffer_map[result.val.other])
    /\ result.op = "eq_token_identifier" =>
          (result.val.equal <=>
              /\ result.n # MANAGED_OPTION_NONE
              /\ managed_buffer_map[result.n] = managed_buffer_map[result.val.other])
    /\ result.op \in RoundTrips =>
          /\ eq(HostState, result.n, result.val) <=> ~IsMarkerDct(result.n)
          /\ IsMarkerDct(result.n) => result.val = MANAGED_OPTION_NONE

C14_Witness ==
    /\ result.op = "eq"
    /\ result.n = MANAGED_OPTION_NONE
    /\ IsMarkerDct(result.val.other)
    /\ ~result.val.equal

(***************************************************************************)
(* TxLog::denali_check against a denali CheckLog.                          *)
(***************************************************************************)
\* CheckValue::check: an unspecified or star pattern accepts any value, an
\* equal pattern accepts the same bytes only
CheckValueCheck(pattern, value) ==
    CASE pattern.kind = "unspecified" -> TRUE
      [] pattern.kind = "star" -> TRUE
      [] pattern.kind = "equal" -> pattern.value = value

denali_check_without_data(log, check) ==
    /\ CheckValueCheck(check.address, log.address)
    /\ CheckValueCheck(check.endpoint, log.endpoint)
    /\ CheckValueCheck(check.topics, log.topics)

\* TxLog::denali_check
denali_check(log, check) ==
    /\ CheckValueCheck(check.address, log.address)
    /\ CheckValueCheck(check.endpoint, log.endpoint)
    /\ CheckValueCheck(check.topics, log.topics)
    /\ CheckValueCheck(check.data, log.data)

LogAddresses == {<<1>>, <<2>>}
LogEndpoints == {<<"f">>, <<"g">>}
LogTopics == {<<>>, <<<<0>>>>, <<<<1>>>>, <<<<0>>, <<1>>>>}
LogData == SeqsUpTo({0, 1}, MaxLogBytes)

TxLog == [address : LogAddresses, endpoint : LogEndpoints,
          topics : LogTopics, data : LogData]

CheckValue(S) ==
    {[kind |-> "unspecified", value |-> <<>>], [kind |-> "star", value |-> <<>>]}
        \cup [kind : {"equal"}, value : S]

CheckLog == [address : CheckValue(LogAddresses), endpoint : CheckValue(LogEndpoints),
             topics : CheckValue(LogTopics), data : CheckValue(LogData)]

InitLog ==
    /\ TxCallIdle /\ EngineIdle
    /\ CallValueIdle
    /\ tx_log \in TxLog
    /\ check_log \in CheckLog

DenaliCheck ==
    /\ calls = 0
    /\ calls' = 1
    /\ result' = [op |-> "denali_check", n |-> 0, ok |-> TRUE, err |-> "",
                  val |-> denali_check(tx_log, check_log)]
    /\ UNCHANGED <<tx_input, call_value_moax_handle, call_value_multi_dct_handle,
                   big_int_map, managed_buffer_map, moax_loads, dct_loads,
                   direct_loads, log_vars, txc_vars, eng_vars>>

NextLog == DenaliCheck

SpecLog == InitLog /\ [][NextLog]_vars

LogFields == {"address", "endpoint", "topics", "data"}

FieldMatches(f) ==
    \/ check_log[f].kind \in {"unspecified", "star"}
    \/ check_log[f].kind = "equal" /\ check_log[f].value = tx_log[f]

\* C6: denali_check is true exactly when each of the four patterns matches
\* its field; so four unspecified or star patterns accept every log, and
\* four exact patterns reject every log that differs in some field.
C6_DenaliCheck ==
    result.op = "denali_check" =>
        /\ result.val <=> \A f \in LogFields : FieldMatches(f)
        /\ (\A f \in LogFields : check_log[f].kind \in {"unspecified", "star"})
              => result.val = TRUE
        /\ ((\A f \in LogFields : check_log[f].kind = "equal")
              /\ (\E f \in LogFields : check_log[f].value # tx_log[f]))
              => result.val = FALSE

C6_Witness ==
    /\ result.op = "denali_check"
    /\ \A f \in LogFields : check_log[f].kind = "equal"
    /\ \A f \in LogFields \ {"data"} : check_log[f].value = tx_log[f]
    /\ tx_log.data = <<0>>
    /\ check_log.data.value = <<1>>
    /\ result.val = FALSE

(***************************************************************************)
(* TxCall::interpret_from a TxCallRaw.                                     *)
(***************************************************************************)
DigitValue(c) ==
    CASE c = "0" -> 0 [] c = "1" -> 1 [] c = "2" -> 2 [] c = "3" -> 3 [] c = "4" -> 4
      [] c = "5" -> 5 [] c = "6" -> 6 [] c = "7" -> 7 [] c = "8" -> 8 [] c = "9" -> 9

\* BigUintValue::interpret_from on a decimal literal
RECURSIVE BigUintValueInterpretFrom(_)
BigUintValueInterpretFrom(literal) ==
    IF literal = <<>> THEN 0
    ELSE 10 * BigUintValueInterpretFrom(SubSeq(literal, 1, Len(literal) - 1))
           + DigitValue(literal[Len(literal)])

\* interpret_moax_value(opt_legacy_value, opt_moax_value): zero by default,
\* then the legacy value, then the explicit field if present
interpret_moax_value(opt_legacy_value, opt_moax_value) ==
    LET v0 == 0
        v1 == IF opt_legacy_value.is_some
              THEN BigUintValueInterpretFrom(opt_legacy_value.v) ELSE v0
    IN  IF opt_moax_value.is_some
        THEN BigUintValueInterpretFrom(opt_moax_value.v) ELSE v1

\* TxDCT::interpret_from
TxDCTInterpretFrom(raw) ==
    [token_identifier |-> raw.token_identifier,
     value |-> BigUintValueInterpretFrom(raw.value)]

interpret_from_swapped(from) ==
    [interpreted |-> TRUE,
     moax_value |-> interpret_moax_value(from.moax_value, from.value),
     dct_value |-> [i \in 1..Len(from.dct_value) |-> TxDCTInterpretFrom(from.dct_value[i])]]

\* TxCall::interpret_from
interpret_from(from) ==
    [interpreted |-> TRUE,
     moax_value |-> interpret_moax_value(from.value, from.moax_value),
     dct_value |-> [i \in 1..Len(from.dct_value) |-> TxDCTInterpretFrom(from.dct_value[i])]]

Literals == {<<"0">>, <<"7">>, <<"4", "2">>, <<"1", "0", "0">>}
OptionalLiteral == {NoOption} \cup [is_some : {TRUE}, v : Literals]
TxDCTRaw == [token_identifier : {"str:T1", "str:T2"}, value : {<<"5">>, <<"7">>}]

TxCallRaw == [value : OptionalLiteral, moax_value : OptionalLiteral,
              dct_value : SeqsUpTo(TxDCTRaw, MaxRawDct)]

InitTxCall ==
    /\ LogIdle /\ EngineIdle
    /\ CallValueIdle
    /\ tx_call_raw \in TxCallRaw
    /\ tx_call = NoTxCall

InterpretFrom ==
    /\ ~tx_call.interpreted
    /\ tx_call' = interpret_from(tx_call_raw)
    /\ UNCHANGED <<cv_vars, log_vars, eng_vars, tx_call_raw>>

NextTxCall == InterpretFrom

SpecTxCall == InitTxCall /\ [][NextTxCall]_vars

\* C7: the interpreted MOAX amount is the explicit field's value when both
\* spellings are present, the present one when only one is, and zero when
\* neither is; a record with two different values is interpreted all the same.
C7_MoaxValuePrecedence ==
    LET legacy   == tx_call_raw.value
        explicit == tx_call_raw.moax_value
    IN  /\ tx_call.interpreted =>
              /\ (legacy.is_some /\ explicit.is_some) =>
                    tx_call.moax_value = BigUintValueInterpretFrom(explicit.v)
              /\ (legacy.is_some /\ ~explicit.is_some) =>
                    tx_call.moax_value = BigUintValueInterpretFrom(legacy.v)
              /\ (~legacy.is_some /\ explicit.is_some) =>
                    tx_call.moax_value = BigUintValueInterpretFrom(explicit.v)
              /\ (~legacy.is_some /\ ~explicit.is_some) => tx_call.moax_value = 0
        /\ ~tx_call.interpreted => ENABLED InterpretFrom

C7_Witness ==
    /\ tx_call.interpreted
    /\ tx_call_raw.value = [is_some |-> TRUE, v |-> <<"7">>]
    /\ tx_call_raw.moax_value = [is_some |-> TRUE, v |-> <<"1", "0", "0">>]
    /\ tx_call.moax_value = 100

(***************************************************************************)
(* Mock execution engine: call frames over the World State.                *)
(* Frame: Entered -> Running -> Committed | RolledBack.                    *)
(***************************************************************************)
Accounts == {"user", "sc1", "sc2"}
Contracts == {"sc1", "sc2"}
CallValues == {0, 1}
StorageValues == {0, 1}

Transfer(w, from, to, amount) ==
    IF from = to THEN w
    ELSE [w EXCEPT !.balance[from] = @ - amount, !.balance[to] = @ + amount]

NewFrame(kind, from, to, amount, snapshot, issued, parent_logs) ==
    [kind |-> kind, from |-> from, to |-> to, amount |-> amount,
     snapshot |-> snapshot, issued |-> issued, parent_logs |-> parent_logs,
     status |-> "Entered", logs |-> <<>>]

Top == frames[Len(frames)]
Pop == SubSeq(frames, 1, Len(frames) - 1)
SetTop(f) == [frames EXCEPT ![Len(frames)] = f]

RECURSIVE PendingLogs(_)
PendingLogs(k) == IF k = 0 THEN 0 ELSE Len(frames[k].logs) + PendingLogs(k - 1)

InitEngine ==
    /\ LogIdle /\ TxCallIdle
    /\ CallValueIdle
    /\ world = [balance |-> [a \in Accounts |-> IF a = "user" THEN 1 ELSE 0],
                storage |-> [c \in Contracts |-> 0]]
    /\ \E amount \in CallValues :
          frames = <<NewFrame("top", "user", "sc1", amount, world, world, <<>>)>>
    /\ tx_result = [status |-> "none", logs |-> <<>>]
    /\ last_event = NoEvent

EngineStep ==
    UNCHANGED <<cv_vars, log_vars, txc_vars>>

\* a frame starts running; a top-level or synchronous call moves its value now
FrameStart ==
    /\ frames # <<>>
    /\ Top.status = "Entered"
    /\ world.balance[Top.from] >= Top.amount
    /\ world' = IF Top.kind = "transf_exec" THEN world
                ELSE Transfer(world, Top.from, Top.to, Top.amount)
    /\ frames' = SetTop([Top EXCEPT !.status = "Running"])
    /\ last_event' = NoEvent
    /\ UNCHANGED tx_result
    /\ EngineStep

\* contract logic writes its storage
StorageWrite ==
    /\ frames # <<>>
    /\ Top.status = "Running"
    /\ \E v \in StorageValues :
          /\ v # world.storage[Top.to]
          /\ world' = [world EXCEPT !.storage[Top.to] = v]
    /\ last_event' = NoEvent
    /\ UNCHANGED <<frames, tx_result>>
    /\ EngineStep

\* contract logic emits a log, pending in its frame
EmitLog ==
    /\ frames # <<>>
    /\ Top.status = "Running"
    /\ PendingLogs(Len(frames)) < MaxLogs
    /\ frames' = SetTop([Top EXCEPT !.logs = Append(@, [address |-> Top.to,
                                                         depth |-> Len(frames)])])
    /\ last_event' = NoEvent
    /\ UNCHANGED <<world, tx_result>>
    /\ EngineStep

\* synchronous nested call: snapshot on entry, the value moves in the child
IssueSyncCall ==
    /\ frames # <<>>
    /\ Top.status = "Running"
    /\ Len(frames) <= MaxDepth
    /\ \E to \in Contracts, amount \in CallValues :
          /\ world.balance[Top.to] >= amount
          /\ frames' = Append(frames,
                 NewFrame("sync", Top.to, to, amount, world, world, Top.logs))
    /\ last_event' = NoEvent
    /\ UNCHANGED <<world, tx_result>>
    /\ EngineStep

\* transfer-and-execute: the value moves first, unconditionally
IssueTransferExecute ==
    /\ frames # <<>>
    /\ Top.status = "Running"
    /\ Len(frames) <= MaxDepth
    /\ \E to \in Contracts, amount \in CallValues :
          /\ world.balance[Top.to] >= amount
          /\ world' = Transfer(world, Top.to, to, amount)
          /\ frames' = Append(frames,
                 NewFrame("transf_exec", Top.to, to, amount, world', world, Top.logs))
    /\ last_event' = NoEvent
    /\ UNCHANGED tx_result
    /\ EngineStep

\* success: pending logs merge into the parent, or into the result at top level
FrameCommit ==
    /\ frames # <<>>
    /\ Top.status = "Running"
    /\ IF Len(frames) = 1
       THEN /\ tx_result' = [status |-> "success", logs |-> Top.logs]
            /\ frames' = <<>>
       ELSE /\ frames' = [Pop EXCEPT ![Len(frames) - 1].logs = @ \o Top.logs]
            /\ UNCHANGED tx_result
    /\ last_event' = [NoEvent EXCEPT !.ev = "child_committed", !.kind = Top.kind]
    /\ UNCHANGED world
    /\ EngineStep

RollBackKeepsWorld(frame, w) == w

\* the World State after the frame failed
RollBack(frame, w) == frame.snapshot

\* failure: restore the snapshot, drop the pending logs, tell the parent
FrameFail ==
    /\ frames # <<>>
    /\ world' = RollBack(Top, world)
    /\ IF Len(frames) = 1
       THEN /\ tx_result' = [status |-> "failed", logs |-> <<>>]
            /\ frames' = <<>>
            /\ last_event' = [NoEvent EXCEPT !.ev = "tx_failed", !.kind = Top.kind,
                                             !.issued = Top.issued]
       ELSE /\ frames' = [Pop EXCEPT ![Len(frames) - 1].status = "ChildFailed"]
            /\ UNCHANGED tx_result
            /\ last_event' = [ev |-> "child_failed", kind |-> Top.kind,
                              from |-> Top.from, to |-> Top.to, amount |-> Top.amount,
                              issued |-> Top.issued, failed_world |-> world,
                              parent_logs |-> Top.parent_logs]
    /\ EngineStep

\* the parent catches the child's failure and resumes
CatchFailure ==
    /\ frames # <<>>
    /\ Top.status = "ChildFailed"
    /\ frames' = SetTop([Top EXCEPT !.status = "Running"])
    /\ UNCHANGED <<world, tx_result, last_event>>
    /\ EngineStep

NextEngine ==
    \/ FrameStart
    \/ StorageWrite
    \/ EmitLog
    \/ IssueSyncCall
    \/ IssueTransferExecute
    \/ FrameCommit
    \/ FrameFail
    \/ CatchFailure

SpecEngine == InitEngine /\ [][NextEngine]_vars

\* C5: when a nested frame fails, the World State the parent sees is the
\* one from immediately before the call was issued, and the failed frame's
\* logs are gone; after a failed transfer-and-execute the only difference is
\* the value it moved.
C5_Rollback ==
    last_event.ev = "child_failed" =>
        /\ last_event.kind = "sync" => world = last_event.issued
        /\ last_event.kind = "transf_exec" =>
              world = [last_event.issued EXCEPT
                         !.balance = [a \in Accounts |->
                            IF last_event.from = last_event.to THEN @[a]
                            ELSE IF a = last_event.from THEN @[a] - last_event.amount
                            ELSE IF a = last_event.to THEN @[a] + last_event.amount
                            ELSE @[a]]]
        /\ frames # <<>>
        /\ Top.logs = last_event.parent_logs
        /\ tx_result.logs = <<>>

C5_Witness ==
    /\ last_event.ev = "child_failed"
    /\ last_event.kind = "sync"
    /\ last_event.amount = 1
    /\ last_event.failed_world.balance # world.balance
    /\ last_event.failed_world.storage # world.storage
    /\ world = last_event.issued
    /\ frames # <<>>
    /\ Top.status = "Running"

====
